---- MODULE Spec2Model ----
(***************************************************************************)
(* Model of internalDataWriter (data_writer.go): a writer that forwards    *)
(* TELNET data to a wrapped *bufio.Writer, escaping byte 255 (IAC).        *)
(*                                                                         *)
(* The state is the bufio.Writer the struct owns (its buffer and its       *)
(* sticky error), the bytes the underlying io.Writer has received, and the *)
(* locals of each caller of Write, one program position per statement.     *)
(* Every step performs at most one write attempt on the underlying         *)
(* io.Writer; each attempt may succeed, fail, or accept only a prefix.     *)
(***************************************************************************)
EXTENDS Integers, Sequences, FiniteSets, TLC

\* ------------------------------------------------------------ bounds ----

\* Longest argument of one Write call (besides the documented examples).
MaxLen == 3
\* Number of Write calls in a run.
MaxCalls == 2
\* Size of the bufio buffer. bufio.NewWriter allocates 4096 bytes; the model
\* scales it down so that arguments of MaxLen bytes reach the paths of
\* bufio.Writer taken when len(p) > Available().
BufSize == 2

\* ------------------------------------------------------------- bytes ----

IAC == 255

\* Byte values the arguments are drawn from: IAC and an ordinary value (the
\* documented example adds eight more ordinary values).
ByteVals == {1, IAC}

\* The examples of the comments on internalDataWriter and newDataWriter.
ExampleIn == <<1, 55, 2, 155, 3, 255, 4, 40, 255, 30, 20>>
ExampleOut == <<1, 55, 2, 155, 3, 255, 255, 4, 40, 255, 255, 30, 20>>
ExampleIAC == <<255>>
ExampleIACOut == <<255, 255>>

Take(s, k) == SubSeq(s, 1, k)
Drop(s, k) == SubSeq(s, k + 1, Len(s))
Min(a, b) == IF a <= b THEN a ELSE b

SeqsUpTo(S, k) == UNION {[1..m -> S] : m \in 0..k}

\* The arguments a caller may pass to Write.
Inputs == SeqsUpTo(ByteVals, MaxLen) \cup {ExampleIn}

\* The caller of the sequential program, and a second goroutine that calls
\* Write on the same writer only in the concurrent specification.
Main == "main"
Other == "other"
Callers == {Main, Other}

VARIABLES
    buf,       \* wrapped.buf[0:wrapped.n], the bytes buffered in the bufio.Writer
    berr,      \* wrapped.err # nil, bufio's sticky error
    sink,      \* every byte the underlying io.Writer has accepted, in order
    st,        \* per caller: position and locals of its Write call (see Idle)
    inputLog,  \* history: the arguments of all Write calls so far, concatenated
    calls      \* history: number of Write calls started

vars == <<buf, berr, sink, st, inputLog, calls>>

\* ---------------------------------------------------- underlying sink ----

\* One call w.Write(p) on the underlying io.Writer: it accepts the first n
\* bytes of p and reports an error or not. io.Writer requires a non-nil
\* error whenever n < len(p).
SinkWrite(p) ==
    {[n |-> k, err |-> f] : k \in 0..Len(p), f \in BOOLEAN} \
        {[n |-> k, err |-> FALSE] : k \in 0..(Len(p) - 1)}

\* -------------------------------------------------------- bufio.Writer ----

\* The writer as a value: w.buf, w.err, and the bytes the sink has received.
W == [buf |-> buf, err |-> berr, sink |-> sink]

Buffered(w) == Len(w.buf)
Available(w) == BufSize - Len(w.buf)

\* bufio.Writer.Flush: with a recorded error it returns it and does nothing;
\* otherwise it writes the buffer to the sink, and on an error (or a short
\* write) keeps the bytes not accepted and records the error.
\* The results carry ret: Flush returned a non-nil error.
FlushKeepsBuffer(w) ==
    IF w.err THEN {[buf |-> w.buf, err |-> TRUE, sink |-> w.sink, ret |-> TRUE]}
    ELSE IF Len(w.buf) = 0
    THEN {[buf |-> w.buf, err |-> FALSE, sink |-> w.sink, ret |-> FALSE]}
    ELSE {[buf  |-> IF o.err THEN Drop(w.buf, o.n) ELSE w.buf,
           err  |-> o.err,
           sink |-> w.sink \o Take(w.buf, o.n),
           ret  |-> o.err] : o \in SinkWrite(w.buf)}

FlushNotSticky(w) ==
    IF Len(w.buf) = 0
    THEN {[buf |-> w.buf, err |-> w.err, sink |-> w.sink, ret |-> w.err]}
    ELSE {[buf  |-> IF o.err THEN Drop(w.buf, o.n) ELSE <<>>,
           err  |-> w.err \/ o.err,
           sink |-> w.sink \o Take(w.buf, o.n),
           ret  |-> o.err] : o \in SinkWrite(w.buf)}

Flush(w) ==
    IF w.err THEN {[buf |-> w.buf, err |-> TRUE, sink |-> w.sink, ret |-> TRUE]}
    ELSE IF Len(w.buf) = 0
    THEN {[buf |-> w.buf, err |-> FALSE, sink |-> w.sink, ret |-> FALSE]}
    ELSE {[buf  |-> IF o.err THEN Drop(w.buf, o.n) ELSE <<>>,
           err  |-> o.err,
           sink |-> w.sink \o Take(w.buf, o.n),
           ret  |-> o.err] : o \in SinkWrite(w.buf)}

\* bufio.Writer.WriteByte(c): refused under a recorded error; flushes first
\* when the buffer is full and gives up when that flush fails.
WriteByteNotSticky(w, c) ==
    IF Available(w) <= 0
    THEN {IF f.ret THEN f ELSE [f EXCEPT !.buf = f.buf \o <<c>>] : f \in Flush(w)}
    ELSE {[buf |-> w.buf \o <<c>>, err |-> w.err, sink |-> w.sink, ret |-> FALSE]}

WriteByte(w, c) ==
    IF w.err THEN {[buf |-> w.buf, err |-> TRUE, sink |-> w.sink, ret |-> TRUE]}
    ELSE IF Available(w) <= 0
    THEN {IF f.ret THEN f ELSE [f EXCEPT !.buf = f.buf \o <<c>>] : f \in Flush(w)}
    ELSE {[buf |-> w.buf \o <<c>>, err |-> FALSE, sink |-> w.sink, ret |-> FALSE]}

\* bufio.Writer.Write(p), the condition of its loop.
WriteLoopCond(w, p) == Len(p) > Available(w) /\ ~w.err

\* bufio.Writer.Write(p), one iteration of its loop: with an empty buffer p
\* goes to the sink directly; otherwise the buffer is filled from p and
\* flushed. The results carry n, the bytes of p consumed.
WriteIter(w, p) ==
    IF Buffered(w) = 0
    THEN {[buf |-> w.buf, err |-> o.err, sink |-> w.sink \o Take(p, o.n), n |-> o.n]
            : o \in SinkWrite(p)}
    ELSE LET n == Min(Available(w), Len(p))
         IN  {[buf |-> f.buf, err |-> f.err, sink |-> f.sink, n |-> n]
                : f \in Flush([w EXCEPT !.buf = w.buf \o Take(p, n)])}

\* bufio.Writer.Write(p) after its loop: under a recorded error it returns
\* it, otherwise the rest of p is copied into the buffer.
WriteTailNotSticky(w, p) ==
    [buf |-> w.buf \o p, n |-> Len(p), ret |-> FALSE]

WriteTail(w, p) ==
    IF w.err THEN [buf |-> w.buf, n |-> 0, ret |-> TRUE]
    ELSE [buf |-> w.buf \o p, n |-> Len(p), ret |-> FALSE]

\* ------------------------------------------ internalDataWriter.Write ----

\* The locals of a caller that is not inside Write. ret_n and ret_err are
\* the values its last call returned; arg (the argument of the last call),
\* mark (the length of sink when it started), failed (a sink write
\* failed during it), args (the arguments of all its calls, in order) and
\* overlap (another caller was inside Write when the last call started)
\* are history.
Idle ==
    [pc |-> "idle", data |-> <<>>, i |-> 0, n_total |-> 0, p |-> <<>>, nn |-> 0,
     e |-> FALSE, ret_n |-> 0, ret_err |-> FALSE,
     arg |-> <<>>, mark |-> 0, failed |-> FALSE, args |-> <<>>, overlap |-> FALSE]

\* newDataWriter: an empty bufio.Writer around the sink.
Init ==
    /\ buf = <<>>
    /\ berr = FALSE
    /\ sink = <<>>
    /\ st = [c \in Callers |-> Idle]
    /\ inputLog = <<>>
    /\ calls = 0

\* A sink write failed in this step (the sticky error was set by it).
FailedNow(r) == ~berr /\ r.err

SetWriter(r) ==
    /\ buf' = r.buf
    /\ berr' = r.err
    /\ sink' = r.sink

\* Line 72 and the loop's init statement.
Call(c, d) ==
    /\ st[c].pc = "idle"
    /\ calls < MaxCalls
    /\ st' = [st EXCEPT ![c] =
                [Idle EXCEPT !.pc = "for", !.data = d, !.arg = d,
                             !.mark = Len(sink),
                             !.args = Append(st[c].args, d),
                             !.overlap = \E o \in Callers \ {c} : st[o].pc # "idle"]]
    /\ inputLog' = inputLog \o d
    /\ calls' = calls + 1
    /\ UNCHANGED <<buf, berr, sink>>

\* The for statement's post statement, i++.
PostStmtMissing(i) == i

PostStmt(i) == i + 1

\* Lines 73-74: data[i] is not IAC; the body does nothing, then i++.
ForSkip(c) ==
    /\ st[c].pc = "for"
    /\ st[c].i < Len(st[c].data)
    /\ st[c].data[st[c].i + 1] # IAC
    /\ st' = [st EXCEPT ![c].i = PostStmt(@)]
    /\ UNCHANGED <<buf, berr, sink, inputLog, calls>>

\* Lines 73-79: data[i] is IAC; enter wrapped.Write(data[:i]).
ForIAC(c) ==
    /\ st[c].pc = "for"
    /\ st[c].i < Len(st[c].data)
    /\ st[c].data[st[c].i + 1] = IAC
    /\ st' = [st EXCEPT ![c].pc = "L79", ![c].p = Take(st[c].data, st[c].i),
                        ![c].nn = 0]
    /\ UNCHANGED <<buf, berr, sink, inputLog, calls>>

\* Lines 73, 103: the loop ends; enter wrapped.Write(data).
ForExit(c) ==
    /\ st[c].pc = "for"
    /\ st[c].i >= Len(st[c].data)
    /\ st' = [st EXCEPT ![c].pc = "L103", ![c].p = st[c].data, ![c].nn = 0]
    /\ UNCHANGED <<buf, berr, sink, inputLog, calls>>

\* Inside wrapped.Write (called at line 79 or 103): one iteration of its loop.
BufWriteIter(c) ==
    /\ st[c].pc \in {"L79", "L103"}
    /\ WriteLoopCond(W, st[c].p)
    /\ \E r \in WriteIter(W, st[c].p) :
        /\ SetWriter(r)
        /\ st' = [st EXCEPT ![c].nn = @ + r.n, ![c].p = Drop(@, r.n),
                            ![c].failed = @ \/ FailedNow(r)]
    /\ UNCHANGED <<inputLog, calls>>

\* wrapped.Write returns (n, e); then lines 80-81 or 104-105: n_total += n
\* and the test of e.
BufWriteReturn(c) ==
    /\ st[c].pc \in {"L79", "L103"}
    /\ ~WriteLoopCond(W, st[c].p)
    /\ LET r == WriteTail(W, st[c].p)
       IN  /\ buf' = r.buf
           /\ st' = [st EXCEPT ![c].n_total = @ + st[c].nn + r.n,
                               ![c].e = r.ret,
                               ![c].p = <<>>,
                               ![c].nn = 0,
                               ![c].pc = IF r.ret THEN "Lerr"
                                         ELSE IF st[c].pc = "L79" THEN "L86"
                                         ELSE "L111"]
    /\ UNCHANGED <<berr, sink, inputLog, calls>>

\* What Write returns: (n_total, e), leaving the call.
Return(s, n, e) ==
    [Idle EXCEPT !.ret_n = n, !.ret_err = e, !.arg = s.arg, !.mark = s.mark,
                 !.failed = s.failed, !.args = s.args, !.overlap = s.overlap]

\* Lines 82-84, 95-97, 106-108: the error exits, Flush and return n_total, e.
ErrExit(c) ==
    /\ st[c].pc = "Lerr"
    /\ \E r \in Flush(W) :
        /\ SetWriter(r)
        /\ st' = [st EXCEPT ![c] = Return([st[c] EXCEPT !.failed = @ \/ FailedNow(r)],
                                          st[c].n_total, st[c].e)]
    /\ UNCHANGED <<inputLog, calls>>

\* Lines 86-89: the first IAC; on an error return n_total, e without a flush.
FirstIAC(c) ==
    /\ st[c].pc = "L86"
    /\ \E r \in WriteByte(W, IAC) :
        /\ SetWriter(r)
        /\ st' = [st EXCEPT ![c] =
                    LET s == [st[c] EXCEPT !.failed = @ \/ FailedNow(r)]
                    IN  IF r.ret THEN Return(s, s.n_total, TRUE)
                        ELSE [s EXCEPT !.pc = "L91"]]
    /\ UNCHANGED <<inputLog, calls>>

\* Line 92: n_total += 1, the input byte IAC.
CountIACTwice(n) == n + 2

CountIACOmitted(n) == n

CountIAC(n) == n + 1

\* Lines 90-92: Flush, its result ignored; then count the IAC.
MidFlush(c) ==
    /\ st[c].pc = "L91"
    /\ \E r \in Flush(W) :
        /\ SetWriter(r)
        /\ st' = [st EXCEPT ![c].n_total = CountIAC(@), ![c].pc = "L93",
                            ![c].failed = @ \/ FailedNow(r)]
    /\ UNCHANGED <<inputLog, calls>>

\* Line 93: the second byte of the pair, WriteByte(255).
SecondByteOmitted(w) == {[buf |-> w.buf, err |-> w.err, sink |-> w.sink, ret |-> w.err]}

SecondByte(w) == WriteByte(w, IAC)

\* Lines 93-94: the second IAC.
SecondIAC(c) ==
    /\ st[c].pc = "L93"
    /\ \E r \in SecondByte(W) :
        /\ SetWriter(r)
        /\ st' = [st EXCEPT ![c].e = r.ret,
                            ![c].pc = IF r.ret THEN "Lerr" ELSE "L99",
                            ![c].failed = @ \/ FailedNow(r)]
    /\ UNCHANGED <<inputLog, calls>>

\* Line 99: data[i+1:], what follows the IAC at data[i].
RestFromIAC(data, i) == Drop(data, i)

RestSkipsOne(data, i) == Drop(data, i + 2)

RestAfterIAC(data, i) == Drop(data, i + 1)

\* Lines 99-100 and the post statement: data = data[i+1:], i = 0, i++.
Reslice(c) ==
    /\ st[c].pc = "L99"
    /\ st' = [st EXCEPT ![c].data = RestAfterIAC(@, st[c].i),
                        ![c].i = PostStmt(0),
                        ![c].pc = "for"]
    /\ UNCHANGED <<buf, berr, sink, inputLog, calls>>

\* Line 111: the last Flush of a call that met no error.
FinalFlushOmitted(w) == {[buf |-> w.buf, err |-> w.err, sink |-> w.sink, ret |-> w.err]}

FinalFlush(w) == Flush(w)

\* Lines 110-112: Flush, its result ignored; return n_total, nil.
FlushReturn(c) ==
    /\ st[c].pc = "L111"
    /\ \E r \in FinalFlush(W) :
        /\ SetWriter(r)
        /\ st' = [st EXCEPT ![c] = Return([st[c] EXCEPT !.failed = @ \/ FailedNow(r)],
                                          st[c].n_total, FALSE)]
    /\ UNCHANGED <<inputLog, calls>>

Next ==
    \/ \E d \in Inputs : Call(Main, d)
    \/ ForSkip(Main)
    \/ ForIAC(Main)
    \/ ForExit(Main)
    \/ BufWriteIter(Main)
    \/ BufWriteReturn(Main)
    \/ ErrExit(Main)
    \/ FirstIAC(Main)
    \/ MidFlush(Main)
    \/ SecondIAC(Main)
    \/ Reslice(Main)
    \/ FlushReturn(Main)

Spec == Init /\ [][Next]_vars

\* ------------------------------------------------------ reference ----

\* The escaping the comments document (lines 19-21, 47): every IAC becomes
\* two IACs, every other byte stays.
RECURSIVE EscapeIAC(_)
EscapeIAC(d) ==
    IF d = <<>> THEN <<>>
    ELSE (IF Head(d) = IAC THEN <<IAC, IAC>> ELSE <<Head(d)>>) \o EscapeIAC(Tail(d))

\* What one Write(data) call delivers to a sink that never fails: the loop
\* of lines 73-102 from index i, then line 103.
RECURSIVE WriteOnce(_, _)
WriteOnce(data, i) ==
    IF i >= Len(data) THEN data
    ELSE IF data[i + 1] = IAC
    THEN Take(data, i) \o <<IAC, IAC>> \o WriteOnce(RestAfterIAC(data, i), PostStmt(0))
    ELSE WriteOnce(data, PostStmt(i))

IsPrefix(s, t) == Len(s) <= Len(t) /\ s = Take(t, Len(s))

\* The caller's locals; its last call has returned; what the sink received
\* since that call started.
S == st[Main]
Returned == S.pc = "idle" /\ calls > 0
Delivered == Drop(sink, S.mark)

\* ----------------------------------------------------------- claims ----

\* C1: once the last Write call has returned and no sink write ever failed,
\* the sink holds the concatenated arguments with every IAC doubled and
\* nothing else changed.
C1_SinkIsEscapedInput == (Returned /\ ~berr) => sink = EscapeIAC(inputLog)

\* C2: a Write of a run of k adjacent IACs delivers 2k IACs to a sink that
\* does not fail; in particular [255, 255] delivers [255, 255, 255, 255].
C2_AdjacentIACsDoubled ==
    (Returned /\ ~berr /\ S.arg # <<>> /\ \A j \in 1..Len(S.arg) : S.arg[j] = IAC)
        => Delivered = [j \in 1..(2 * Len(S.arg)) |-> IAC]

\* C3: chunking invariance: however the input was split over Write calls,
\* a sink that does not fail has received what one Write call of the whole
\* input delivers.
C3_ChunkingInvariance == (Returned /\ ~berr) => sink = WriteOnce(inputLog, 0)

\* C4: a Write call during which a write to the sink failed returns a
\* non-nil error.
C4_SinkErrorReturned == (Returned /\ S.failed) => S.ret_err

\* C5: a Write call that returns a nil error returns len(data) as its count.
C5_CountIsLenOnSuccess == (Returned /\ ~S.ret_err) => S.ret_n = Len(S.arg)

C5_Witness ==
    /\ Returned /\ ~S.ret_err /\ ~berr
    /\ Len(S.arg) = MaxLen
    /\ \E j \in 1..Len(S.arg) : S.arg[j] = IAC
    /\ S.ret_n = Len(S.arg)

\* C6: a Write call that returns (n, err) with err non-nil has delivered the
\* escaped form of the first n bytes of its argument to the sink.
C6_CountedBytesDelivered ==
    (Returned /\ S.ret_err) => IsPrefix(EscapeIAC(Take(S.arg, S.ret_n)), Delivered)

\* C7: after a sink write has failed during a Write call, until the call
\* returns, nothing more reaches the sink, nothing more enters the buffer,
\* and the scan position (data and i) does not move.
C7_ErrorShortCircuit ==
    [][(S.failed /\ S.pc # "idle")
         => /\ sink' = sink
            /\ buf' = buf
            /\ (S'.pc # "idle" => (S'.data = S.data /\ S'.i = S.i))]_vars

C7_Witness ==
    /\ S.failed /\ S.pc = "L93"
    /\ S.i + 1 < Len(S.data)
    /\ buf # <<>>

C9_EmptyWriteSucceeds ==
    (Returned /\ S.arg = <<>>) => (~S.ret_err /\ S.ret_n = 0 /\ Delivered = <<>>)

\* C9 amended: a Write of the empty sequence returns count 0 and delivers
\* nothing; its error is nil exactly when no sink write has failed before.
C9_EmptyWrite ==
    (Returned /\ S.arg = <<>>)
        => (S.ret_n = 0 /\ Delivered = <<>> /\ (S.ret_err <=> berr))

C9_Witness == Returned /\ S.arg = <<>> /\ calls > 1 /\ S.ret_err /\ sink # <<>>

\* C10: the documented examples: one Write of ExampleIn delivers ExampleOut
\* and returns 11; one Write of [255] delivers [255, 255] and returns 1
\* (sink not failing).
C10_DocumentedExamples ==
    /\ (Returned /\ ~berr /\ S.arg = ExampleIn)
         => (Delivered = ExampleOut /\ S.ret_n = 11 /\ ~S.ret_err)
    /\ (Returned /\ ~berr /\ S.arg = ExampleIAC)
         => (Delivered = ExampleIACOut /\ S.ret_n = 1 /\ ~S.ret_err)

C10_Witness == Returned /\ ~berr /\ inputLog = ExampleIAC \o ExampleIn

\* C11: when the first IAC of a pair has reached the sink (the Flush of
\* line 91 left nothing buffered), no failed sink operation stands between
\* it and the second IAC, so the WriteByte of line 93 is not refused.
C11_SecondIACFollowsFirst == (S.pc = "L93" /\ buf = <<>>) => ~berr

\* ------------------------------------------------------ termination ----

\* The steps of a call in progress: everything but the entry into Write.
Step(c) ==
    \/ ForSkip(c) \/ ForIAC(c) \/ ForExit(c)
    \/ BufWriteIter(c) \/ BufWriteReturn(c) \/ ErrExit(c)
    \/ FirstIAC(c) \/ MidFlush(c) \/ SecondIAC(c) \/ Reslice(c) \/ FlushReturn(c)

\* Write is synchronous: the calling goroutine keeps executing it, and every
\* call on the sink returns. Whether Write is called again is up to the caller.
FairSpec == Spec /\ WF_vars(Step(Main))

\* The program positions in the order a call passes through them between
\* two resets of the scan (or up to its return).
PcRank(pc) ==
    CASE pc = "for"  -> 8
      [] pc = "L79"  -> 7
      [] pc = "L103" -> 7
      [] pc = "L86"  -> 6
      [] pc = "L91"  -> 5
      [] pc = "L93"  -> 4
      [] pc = "L99"  -> 3
      [] pc = "L111" -> 2
      [] pc = "Lerr" -> 1
      [] OTHER       -> 0

\* A number above every component of Rank.
RankBase == Len(ExampleIn) + MaxLen + BufSize + 10

\* The work a call has left, ordered lexicographically: the data still to
\* scan, the position in the loop body, the bytes from i to the end of data,
\* the bytes wrapped.Write has not consumed, whether the sink is still
\* usable, the bytes buffered.
Rank(s) ==
    ((((Len(s.data) * RankBase + PcRank(s.pc)) * RankBase
        + (Len(s.data) + 1 - s.i)) * RankBase
        + Len(s.p)) * 2
        + (IF berr THEN 0 ELSE 1)) * RankBase
        + Len(buf)

\* C12: every Write call terminates: while a call is in progress some step
\* of it can always be taken and every step strictly lowers Rank, a natural
\* number, so the call returns after finitely many steps; each reset of the
\* scan (lines 99-100) strictly shortens data; and a call has returned only
\* after a sink error or with nothing buffered and every input byte
\* forwarded.
C12_WriteTerminates ==
    /\ [](S.pc # "idle" => (Rank(S) >= 0 /\ ENABLED <<Step(Main)>>_vars))
    /\ [][S.pc # "idle" => Rank(S)' < Rank(S)]_vars
    /\ [][S.pc = "L99" => Len(S'.data) < Len(S.data)]_vars
    /\ [](Returned => (berr \/ (buf = <<>> /\ Len(Delivered) >= Len(S.arg))))

\* C12, directly, under fairness of the caller: a call in progress returns.
C12_EventuallyReturns == [](S.pc # "idle" => <>(S.pc = "idle"))

C12_Witness ==
    /\ S.pc = "for" /\ S.i = 1
    /\ S.data # <<>> /\ Len(S.data) < Len(S.arg)
    /\ calls = MaxCalls

\* C13: against a sink that has not failed, what a Write call delivers and
\* the count it returns depend on its argument alone, whatever calls came
\* before: they are WriteOnce of the argument and its length.
C13_CallSelfContained ==
    (Returned /\ ~berr)
        => (Delivered = WriteOnce(S.arg, 0) /\ S.ret_n = Len(S.arg) /\ ~S.ret_err)

C13_Witness ==
    /\ Returned /\ ~berr /\ Len(S.args) = 2
    /\ S.args[1] # S.args[2]
    /\ \E j \in 1..Len(S.args[1]) : S.args[1][j] = IAC
    /\ \E j \in 1..Len(S.arg) : S.arg[j] = IAC
    /\ S.mark > 0

HasIAC(d) == \E j \in 1..Len(d) : d[j] = IAC

\* The last call was given, as its argument, exactly what the call before
\* it delivered (and nothing failed): escaping applied to its own output.
EscapedTwice ==
    /\ Returned /\ ~berr
    /\ Len(S.args) = 2
    /\ S.arg = Take(sink, S.mark)

\* C14: escaping is not idempotent: when D contains an IAC, escaping the
\* escaped D gives a strictly longer sequence than escaping D once; when D
\* contains none, both applications leave D unchanged. Checked on two
\* chained Write calls and, in the initial state, on WriteOnce for every
\* argument.
C14_NotIdempotent ==
    /\ EscapedTwice =>
         IF HasIAC(S.args[1])
         THEN Len(Delivered) > Len(S.arg) /\ Delivered # S.arg
         ELSE S.arg = S.args[1] /\ Delivered = S.args[1]
    /\ calls = 0 =>
         \A D \in Inputs :
            LET once == WriteOnce(D, 0)
                twice == WriteOnce(once, 0)
            IN  IF HasIAC(D) THEN Len(twice) > Len(once)
                ELSE once = D /\ twice = D

C14_Witness ==
    /\ EscapedTwice
    /\ Len(S.args[1]) >= 2
    /\ HasIAC(S.args[1])

\* ------------------------------------------------------ concurrency ----

\* Longest argument of a Write call in the concurrent specification.
ConcLen == 2

ConcInputs == SeqsUpTo(ByteVals, ConcLen)

\* A goroutine of the concurrent program makes its one call of Write.
ConcCall(c, d) ==
    /\ st[c].args = <<>>
    /\ Call(c, d)

\* Two goroutines call Write on the same writer with no synchronization,
\* once each. Each call on the bufio.Writer is taken as one step; the steps
\* of the two callers interleave freely.
ConcNext ==
    \E c \in Callers :
        \/ \E d \in ConcInputs : ConcCall(c, d)
        \/ ForSkip(c)
        \/ ForIAC(c)
        \/ ForExit(c)
        \/ BufWriteIter(c)
        \/ BufWriteReturn(c)
        \/ ErrExit(c)
        \/ FirstIAC(c)
        \/ MidFlush(c)
        \/ SecondIAC(c)
        \/ Reslice(c)
        \/ FlushReturn(c)

ConcSpec == Init /\ [][ConcNext]_vars

\* Each caller has made one call, both calls have returned, no sink write
\* failed.
BothReturned ==
    /\ \A c \in Callers : st[c].pc = "idle" /\ Len(st[c].args) = 1
    /\ ~berr

\* The sink holds what the two calls deliver one after the other, in one
\* order or the other.
SerialOutcome ==
    LET a == WriteOnce(st[Main].arg, 0)
        b == WriteOnce(st[Other].arg, 0)
    IN  sink = a \o b \/ sink = b \o a

Overlapped == \E c \in Callers : st[c].overlap

\* C15: two Write calls on the same writer can leave the sink with a byte
\* sequence that is neither serial order of the two calls (C15_Witness is
\* reachable), and this happens only when the calls ran concurrently.
C15_NonSerialOnlyWhenConcurrent ==
    (BothReturned /\ ~SerialOutcome) => Overlapped

C15_Witness == BothReturned /\ ~SerialOutcome /\ Overlapped /\ buf = <<>>

\* -------------------------------------------------- failure and after ----

\* The sticky error was already set when the last call started: it is set
\* now, and not by a sink write of this call.
FailedBefore == berr /\ ~S.failed

\* C16: once a sink write has failed, every later Write call returns a
\* non-nil error with count 0 and delivers nothing more to the sink.
C16_FailureIsSticky ==
    (Returned /\ FailedBefore)
        => (S.ret_err /\ S.ret_n = 0 /\ Delivered = <<>>)

C16_Witness ==
    /\ Returned /\ FailedBefore
    /\ Len(S.arg) >= 2 /\ HasIAC(S.arg)
    /\ buf # <<>>

\* d without its IACs, and the number of IACs in d.
RECURSIVE StripIAC(_)
StripIAC(d) ==
    IF d = <<>> THEN <<>>
    ELSE (IF Head(d) = IAC THEN <<>> ELSE <<Head(d)>>) \o StripIAC(Tail(d))

CountOfIAC(d) == Cardinality({j \in 1..Len(d) : d[j] = IAC})

\* C17: with no sink failure, the bytes other than IAC pass through
\* untouched: the sink's stream without its IACs is the concatenated input
\* without its IACs, and the sink holds at least as many IACs as the input.
C17_OrdinaryBytesUntouched ==
    (Returned /\ ~berr)
        => /\ StripIAC(sink) = StripIAC(inputLog)
           /\ CountOfIAC(sink) >= CountOfIAC(inputLog)

C17_Witness ==
    /\ Returned /\ ~berr /\ calls = MaxCalls
    /\ S.arg = ExampleIn
    /\ S.mark > 0
    /\ StripIAC(Take(sink, S.mark)) # <<>>
    /\ CountOfIAC(Take(sink, S.mark)) > 0

\* What a sink that never fails receives for the calls with arguments as,
\* in order.
RECURSIVE Ideal(_)
Ideal(as) ==
    IF as = <<>> THEN <<>> ELSE WriteOnce(Head(as), 0) \o Ideal(Tail(as))

\* C18: whatever the sink does (fail, or accept part of a write), what it
\* has received is at every moment a prefix of what a sink that never fails
\* receives for the same calls.
C18_SinkIsPrefixOfIdeal == IsPrefix(sink, Ideal(S.args))

C18_Witness ==
    /\ Returned /\ berr /\ calls = MaxCalls
    /\ buf # <<>>
    /\ HasIAC(sink)
    /\ Len(sink) + Len(buf) < Len(Ideal(S.args))

\* C19: on every return of Write the count n satisfies 0 <= n <= len(data),
\* and n < len(data) only together with a non-nil error.
C19_CountWithinBounds ==
    Returned
        => /\ 0 <= S.ret_n /\ S.ret_n <= Len(S.arg)
           /\ (S.ret_n < Len(S.arg) => S.ret_err)

C19_Witness ==
    /\ Returned /\ S.ret_err /\ S.failed
    /\ 0 < S.ret_n /\ S.ret_n < Len(S.arg)
====
